---- MODULE Spec2Model ----
(***************************************************************************)
(* A model of the chat application of js/chat-controller.js: the           *)
(* ResponseProcessor (the Thinking:/Answer: parser and the display         *)
(* formatter), the SettingsManager, the ChatHistoryManager, the            *)
(* ModelHandler's streaming and non-streaming handlers and                 *)
(* ChatController.sendMessage.                                             *)
(*                                                                         *)
(* A JavaScript string is a sequence of tokens.  The two protocol markers  *)
(* "Thinking:" and "Answer:" are one token each, " " is a whitespace       *)
(* character, "\n" a second one, and every other token is an ordinary      *)
(* character that is part of no marker.  A text over these tokens holds a  *)
(* marker exactly where it holds the marker's token, so includes,          *)
(* startsWith and the regular expressions of the source are computed       *)
(* exactly on this class of strings.                                       *)
(*                                                                         *)
(* A JavaScript object is a record with exactly the keys the code writes:  *)
(* a key the code leaves out is absent from the record (undefined).        *)
(***************************************************************************)
EXTENDS Integers, Sequences, FiniteSets, TLC

\* ------------------------------------------------------------------ bounds

\* Longest text handed to the parser in ParserSpec.
MaxLen == 4
\* Longest chunk (in tokens) one streaming callback adds to the snapshot.
MaxChunk == 2

\* ------------------------------------------------------------------ tokens

TH == "Thinking:"
AN == "Answer:"
WS == " "
NL == "\n"
\* '🤔 Thinking...', the waiting placeholder (it holds no "Thinking:" marker).
Placeholder == <<"(thinking...)">>

\* Ordinary characters of the parser's input texts.
Chars == {"a", "b"}
Alphabet == {TH, AN, WS} \cup Chars

RECURSIVE TextsOfLen(_, _)
TextsOfLen(S, n) ==
    IF n = 0 THEN {<<>>}
    ELSE {Append(t, c) : t \in TextsOfLen(S, n - 1), c \in S}

TextsUpTo(S, n) == UNION {TextsOfLen(S, k) : k \in 0..n}

Texts == TextsUpTo(Alphabet, MaxLen)

\* ------------------------------------------------- JavaScript string library

\* String.prototype.includes for a one-token needle.
includes(s, m) == \E i \in 1..Len(s) : s[i] = m

\* String.prototype.startsWith for a one-token needle.
startsWith(s, m) == Len(s) > 0 /\ s[1] = m

\* The first index >= from at which s holds m, 0 when there is none.
indexOf(s, m, from) ==
    LET hits == {i \in from..Len(s) : s[i] = m}
    IN  IF hits = {} THEN 0 ELSE CHOOSE i \in hits : \A j \in hits : i <= j

isSpace(c) == c \in {WS, NL}

RECURSIVE trimStart(_)
trimStart(s) ==
    IF s # <<>> /\ isSpace(Head(s)) THEN trimStart(Tail(s)) ELSE s

RECURSIVE trimEnd(_)
trimEnd(s) ==
    IF s # <<>> /\ isSpace(s[Len(s)]) THEN trimEnd(SubSeq(s, 1, Len(s) - 1)) ELSE s

\* String.prototype.trim
trim(s) == trimEnd(trimStart(s))

\* The value of String.prototype.match: null, or the first capture group.
NoMatch == [matched |-> FALSE]
Match(g) == [matched |-> TRUE, group1 |-> g]

\* Mutant: a greedy group, /Thinking:(.*)(?=Answer:|$)/s, which runs to the end
\* of the text.
thinkingRegexGreedy(response) ==
    LET i == indexOf(response, TH, 1)
    IN  IF i = 0 THEN NoMatch
        ELSE Match(SubSeq(response, i + 1, Len(response)))

\* response.match(/Thinking:(.*?)(?=Answer:|$)/s): the leftmost "Thinking:",
\* then lazily up to the first "Answer:" that follows it, or the end of the text.
thinkingRegex(response) ==
    LET i == indexOf(response, TH, 1)
    IN  IF i = 0 THEN NoMatch
        ELSE LET j == indexOf(response, AN, i + 1)
                 e == IF j = 0 THEN Len(response) + 1 ELSE j
             IN  Match(SubSeq(response, i + 1, e - 1))

\* Mutant: the group starts after the last "Answer:" instead of the first.
answerRegexLast(response) ==
    LET hits == {i \in 1..Len(response) : response[i] = AN}
    IN  IF hits = {} THEN NoMatch
        ELSE LET i == CHOOSE i \in hits : \A j \in hits : j <= i
             IN  Match(SubSeq(response, i + 1, Len(response)))

\* response.match(/Answer:(.*?)$/s): the leftmost "Answer:", then up to the end
\* of the text ($ without the m flag is the end of the input only).
answerRegex(response) ==
    LET i == indexOf(response, AN, 1)
    IN  IF i = 0 THEN NoMatch
        ELSE Match(SubSeq(response, i + 1, Len(response)))

\* s.replace(/^Thinking:/, '')
stripThinkingPrefix(s) == IF startsWith(s, TH) THEN Tail(s) ELSE s

\* s.replace(/^.*?Thinking:/s, by): everything up to and including the first
\* "Thinking:" replaced by `by`; unchanged when there is no "Thinking:".
replaceThroughThinking(s, by) ==
    LET i == indexOf(s, TH, 1)
    IN  IF i = 0 THEN s ELSE by \o SubSeq(s, i + 1, Len(s))

\* ------------------------------------------------------- ResponseProcessor

\* The parser's carried-forward fields, as processCoTResponse reads and writes
\* them: [lastThinkingContent, lastAnswerContent].
ParserState(t, a) == [lastThinkingContent |-> t, lastAnswerContent |-> a]

\* The first branch of processCoTResponse (both regular expressions match).
cotBoth(thinkingMatch, answerMatch) ==
    LET thinking == trim(thinkingMatch.group1)
        answer == trim(answerMatch.group1)
    IN  [ret |-> [thinking |-> thinking,
                  answer |-> answer,
                  hasStructuredResponse |-> TRUE],
         st |-> ParserState(thinking, answer)]

\* Mutant: the answer is not carried forward.
cotThinkingOnlyNoCarry(response, st) ==
    LET thinking == trim(stripThinkingPrefix(response))
    IN  [ret |-> [thinking |-> thinking,
                  answer |-> <<>>,
                  hasStructuredResponse |-> TRUE,
                  partial |-> TRUE,
                  stage |-> "thinking"],
         st |-> ParserState(thinking, st.lastAnswerContent)]

\* Mutant: the partial flag is left out.
cotThinkingOnlyNotPartial(response, st) ==
    LET thinking == trim(stripThinkingPrefix(response))
    IN  [ret |-> [thinking |-> thinking,
                  answer |-> st.lastAnswerContent,
                  hasStructuredResponse |-> TRUE,
                  stage |-> "thinking"],
         st |-> ParserState(thinking, st.lastAnswerContent)]

\* Mutant: the reasoning is stored in both carried-forward fields.
cotThinkingOnlyStoresBoth(response, st) ==
    LET thinking == trim(stripThinkingPrefix(response))
    IN  [ret |-> [thinking |-> thinking,
                  answer |-> st.lastAnswerContent,
                  hasStructuredResponse |-> TRUE,
                  partial |-> TRUE,
                  stage |-> "thinking"],
         st |-> ParserState(thinking, thinking)]

\* The second branch: "Partial thinking (no answer yet)".
cotThinkingOnly(response, st) ==
    LET thinking == trim(stripThinkingPrefix(response))
    IN  [ret |-> [thinking |-> thinking,
                  answer |-> st.lastAnswerContent,
                  hasStructuredResponse |-> TRUE,
                  partial |-> TRUE,
                  stage |-> "thinking"],
         st |-> ParserState(thinking, st.lastAnswerContent)]

\* The third branch: "Malformed response (partial reasoning)".
cotMalformed(response, st) ==
    LET thinking == replaceThroughThinking(response, <<TH>>)
    IN  [ret |-> [thinking |-> trim(stripThinkingPrefix(thinking)),
                  answer |-> <<>>,
                  hasStructuredResponse |-> FALSE,
                  partial |-> TRUE],
         st |-> st]

\* Mutant: the unstructured answer is trimmed.
cotDefaultTrimmed(response, st) ==
    [ret |-> [thinking |-> <<>>,
              answer |-> trim(response),
              hasStructuredResponse |-> FALSE],
     st |-> st]

\* Mutant: an empty response falls back to the carried-forward answer
\* (response || this.lastAnswerContent).
cotDefaultCarried(response, st) ==
    [ret |-> [thinking |-> <<>>,
              answer |-> IF response = <<>> THEN st.lastAnswerContent ELSE response,
              hasStructuredResponse |-> FALSE],
     st |-> st]

\* The fall-through: the whole response is the answer.
cotDefault(response, st) ==
    [ret |-> [thinking |-> <<>>,
              answer |-> response,
              hasStructuredResponse |-> FALSE],
     st |-> st]

\* processCoTResponse(response), called with the carried-forward fields st:
\* [ret |-> the object returned, st |-> the fields after the call].
processCoTResponse(response, st) ==
    LET thinkingMatch == thinkingRegex(response)
        answerMatch == answerRegex(response)
    IN  IF thinkingMatch.matched /\ answerMatch.matched
        THEN cotBoth(thinkingMatch, answerMatch)
        ELSE IF startsWith(response, TH) /\ ~includes(response, AN)
        THEN cotThinkingOnly(response, st)
        ELSE IF includes(response, TH) /\ ~thinkingMatch.matched
        THEN cotMalformed(response, st)
        ELSE cotDefault(response, st)

\* Mutant: only a leading "Thinking:" is removed (/^Thinking:/).
partialThinkingOnlyPrefix(fullText) ==
    [thinking |-> trim(stripThinkingPrefix(fullText)),
     answer |-> <<>>,
     hasStructuredResponse |-> TRUE,
     partial |-> TRUE,
     stage |-> "thinking"]

\* The first branch of processPartialCoTResponse: "Only thinking so far".
partialThinkingOnly(fullText) ==
    [thinking |-> trim(replaceThroughThinking(fullText, <<>>)),
     answer |-> <<>>,
     hasStructuredResponse |-> TRUE,
     partial |-> TRUE,
     stage |-> "thinking"]

\* Mutant: the segments are not trimmed.
partialBothUntrimmed(thinkingMatch, answerMatch) ==
    [thinking |-> thinkingMatch.group1,
     answer |-> answerMatch.group1,
     hasStructuredResponse |-> TRUE,
     partial |-> FALSE]

\* Mutant: a snapshot with both markers is still reported as partial.
partialBothStillPartial(thinkingMatch, answerMatch) ==
    [thinking |-> trim(thinkingMatch.group1),
     answer |-> trim(answerMatch.group1),
     hasStructuredResponse |-> TRUE,
     partial |-> TRUE]

\* The second branch: "Both thinking and answer are present".
partialBoth(thinkingMatch, answerMatch) ==
    [thinking |-> trim(thinkingMatch.group1),
     answer |-> trim(answerMatch.group1),
     hasStructuredResponse |-> TRUE,
     partial |-> FALSE]

\* The default case: "treat as normal text".
partialDefault(fullText) ==
    [thinking |-> <<>>,
     answer |-> fullText,
     hasStructuredResponse |-> FALSE]

\* processPartialCoTResponse(fullText): the object returned; it reads and
\* writes none of the module's fields.
processPartialCoTResponse(fullText) ==
    IF includes(fullText, TH) /\ ~includes(fullText, AN)
    THEN partialThinkingOnly(fullText)
    ELSE IF includes(fullText, TH) /\ includes(fullText, AN)
            /\ thinkingRegex(fullText).matched /\ answerRegex(fullText).matched
    THEN partialBoth(thinkingRegex(fullText), answerRegex(fullText))
    ELSE partialDefault(fullText)

\* JavaScript truthiness of processed.partial (absent is undefined is falsy).
partialOf(processed) == "partial" \in DOMAIN processed /\ processed.partial

\* processed.stage === 'thinking'
stageIsThinking(processed) ==
    "stage" \in DOMAIN processed /\ processed.stage = "thinking"

\* Mutant: formatResponseForDisplay whose first test joins its two conditions with &&.
formatBothConditions(processed, settings) ==
    IF ~settings.enableCoT /\ ~processed.hasStructuredResponse
    THEN processed.answer
    ELSE IF settings.showThinking
    THEN IF partialOf(processed) /\ stageIsThinking(processed)
         THEN <<TH, WS>> \o processed.thinking
         ELSE IF partialOf(processed)
         THEN processed.thinking
         ELSE <<TH, WS>> \o processed.thinking \o <<NL, NL, AN, WS>> \o processed.answer
    ELSE IF processed.answer # <<>> THEN processed.answer ELSE Placeholder

\* Mutant: formatResponseForDisplay whose last line returns processed.answer with no
\* placeholder.
formatNoPlaceholder(processed, settings) ==
    IF ~settings.enableCoT \/ ~processed.hasStructuredResponse
    THEN processed.answer
    ELSE IF settings.showThinking
    THEN IF partialOf(processed) /\ stageIsThinking(processed)
         THEN <<TH, WS>> \o processed.thinking
         ELSE IF partialOf(processed)
         THEN processed.thinking
         ELSE <<TH, WS>> \o processed.thinking \o <<NL, NL, AN, WS>> \o processed.answer
    ELSE processed.answer

\* Mutant: formatResponseForDisplay that tests partial before the stage, so that the
\* stage's branch is never taken.
formatPartialFirst(processed, settings) ==
    IF ~settings.enableCoT \/ ~processed.hasStructuredResponse
    THEN processed.answer
    ELSE IF settings.showThinking
    THEN IF partialOf(processed)
         THEN processed.thinking
         ELSE IF partialOf(processed) /\ stageIsThinking(processed)
         THEN <<TH, WS>> \o processed.thinking
         ELSE <<TH, WS>> \o processed.thinking \o <<NL, NL, AN, WS>> \o processed.answer
    ELSE IF processed.answer # <<>> THEN processed.answer ELSE Placeholder

\* formatResponseForDisplay(processed, settings)
formatResponseForDisplay(processed, settings) ==
    IF ~settings.enableCoT \/ ~processed.hasStructuredResponse
    THEN processed.answer
    ELSE IF settings.showThinking
    THEN IF partialOf(processed) /\ stageIsThinking(processed)
         THEN <<TH, WS>> \o processed.thinking
         ELSE IF partialOf(processed)
         THEN processed.thinking
         ELSE <<TH, WS>> \o processed.thinking \o <<NL, NL, AN, WS>> \o processed.answer
    ELSE IF processed.answer # <<>> THEN processed.answer ELSE Placeholder

\* resetState(): the fields it assigns.
FreshParserState == ParserState(<<>>, <<>>)

\* enhanceWithCoT(message): the message followed by the format instructions,
\* which spell out both markers.
enhanceWithCoT(message) ==
    message \o <<NL, NL, "(use Chain of Thought reasoning)", NL,
                 TH, WS, "[reasoning]", NL, AN, WS, "[answer]">>

\* ------------------------------------------------------------------- state

VARIABLES
    settings,             \* SettingsManager: settings
    chatHistory,          \* ChatHistoryManager: chatHistory
    lastThinkingContent,  \* ResponseProcessor: lastThinkingContent
    lastAnswerContent,    \* ResponseProcessor: lastAnswerContent
    isThinking,           \* ResponseProcessor: isThinking
    chatWindow,           \* the message elements of #chat-window, in order
    req,                  \* the locals of each sendMessage call and its handler
    call,                 \* ParserSpec: the one parser call and what it returned
    loggedIn              \* App: ApiService.init(password) has returned true

vars == <<settings, chatHistory, lastThinkingContent, lastAnswerContent,
          isThinking, chatWindow, req, call, loggedIn>>

appVars == <<settings, chatHistory, isThinking, chatWindow, req, loggedIn>>

\* The two sendMessage calls of a run of Spec, A (1) and B (2): they may overlap.
Requests == {1, 2}

\* The ordinary character the transport uses in request r's reply: replies of
\* different requests share no ordinary character.
ReqChar(r) == <<"a", "b">>[r]
\* The user's input of request r.
UserInput(r) == <<"q", ReqChar(r)>>

\* The complete replies the transport of Spec produces for request r: one in the
\* Thinking:/Answer: format and one plain text.  A stream may end after any
\* prefix of one.
Scripts(r) == {<<TH, ReqChar(r), AN, ReqChar(r)>>, <<ReqChar(r)>>}

Prefixes(s) == {SubSeq(s, 1, k) : k \in 0..Len(s)}

StreamTexts(r) == UNION {Prefixes(s) : s \in Scripts(r)}

IsPrefix(s, t) == Len(s) <= Len(t) /\ SubSeq(t, 1, Len(s)) = s

SettingsValues == [streaming : BOOLEAN, enableCoT : BOOLEAN, showThinking : BOOLEAN]

\* let settings = { streaming: false, enableCoT: false, showThinking: true }
InitialSettings == [streaming |-> FALSE, enableCoT |-> FALSE, showThinking |-> TRUE]

ErrorText == <<"Error: (err.message)">>

NoProcessed == [thinking |-> <<>>, answer |-> <<>>, hasStructuredResponse |-> FALSE]

IdleRequest ==
    [pc |-> "idle", settings |-> InitialSettings,
     sentHistory |-> <<>>, sentMessage |-> <<>>,
     aiMsgElement |-> 0, streamedResponse |-> <<>>, reply |-> <<>>,
     classified |-> "none", processed |-> NoProcessed]

\* The locals of a call that has thrown are gone.
FailedRequest == [IdleRequest EXCEPT !.pc = "failed"]

\* A call that has returned keeps, for the record, the settings it ran with, the
\* reply and its last classification; the transport's arguments are gone.
Finished(rq) == [rq EXCEPT !.pc = "done", !.sentHistory = <<>>, !.sentMessage = <<>>]

\* The record of the calls made on the parser directly: the call (op, text, the
\* state before it, what it returned), the snapshot before it, a second
\* processCoTResponse call on the same text (again, the state after the first
\* call, what the second returned), and the rendering of the result
\* (formatted, the settings passed, the string returned).
NoCall ==
    [op |-> "none", text |-> <<>>, pre |-> FreshParserState, ret |-> NoProcessed,
     prevText |-> <<>>, prevRet |-> NoProcessed,
     again |-> FALSE, post |-> FreshParserState, ret2 |-> NoProcessed,
     formatted |-> FALSE, config |-> InitialSettings, display |-> <<>>]

parserState == ParserState(lastThinkingContent, lastAnswerContent)

\* What prompt() may return: null or '' (cancelled or left empty), or a
\* password.
Passwords == {"", "right", "wrong"}

\* ApiService.init(password): true when the password decrypts the API keys.
ApiServiceInit(password) == password = "right"

\* promptForPassword() -> doLogin(password), to the point where the call
\* returns: TRUE when ApiService.init returned true, FALSE when the prompt was
\* cancelled and setTimeout(promptForPassword, 1000) is pending.  A rejected
\* password prompts again at once, with either end.
loginOutcomes ==
    UNION {IF password = "" THEN {FALSE}
           ELSE IF ApiServiceInit(password) THEN {TRUE}
           ELSE {TRUE, FALSE} : password \in Passwords}

\* App.init -> ChatController.init(savedSettings): the saved settings of the
\* cookie are merged over the initial ones; then checkPasswordOrPrompt().
Init ==
    /\ settings \in SettingsValues
    /\ chatHistory = <<>>
    /\ lastThinkingContent = <<>>
    /\ lastAnswerContent = <<>>
    /\ isThinking = FALSE
    /\ chatWindow = <<>>
    /\ req = [r \in Requests |-> IdleRequest]
    /\ call = NoCall
    /\ loggedIn \in loginOutcomes

\* ---------------------------------------------------------------- UI, history

\* UIController.addMessage(sender, text): appends one message element.
addMessage(window, sender, text) == Append(window, [sender |-> sender, text |-> text])

\* UIController.updateMessageContent(messageElement, text)
updateMessageContent(window, el, text) ==
    IF el = 0 THEN window ELSE [window EXCEPT ![el].text = text]

\* Mutant: the entry is pushed twice.
historyAddTwice(history, role, content) ==
    Append(Append(history, [role |-> role, content |-> content]),
           [role |-> role, content |-> content])

\* ChatHistoryManager.addMessage(role, content)
historyAdd(history, role, content) == Append(history, [role |-> role, content |-> content])

\* Mutant: getSettings returns the stored object itself and updateSettings
\* assigns into it, so the requests in flight see the new values.
updateSettingsShared(newSettings) ==
    /\ settings' = newSettings
    /\ req' = [r \in Requests |->
                  IF req[r].pc \in {"stream", "send", "usage"}
                  THEN [req[r] EXCEPT !.settings = newSettings]
                  ELSE req[r]]
    /\ UNCHANGED <<chatHistory, lastThinkingContent, lastAnswerContent,
                   isThinking, chatWindow, call, loggedIn>>

\* SettingsManager.updateSettings(newSettings); the settings dialog saves all
\* three switches.
updateSettings(newSettings) ==
    /\ settings' = newSettings
    /\ UNCHANGED <<chatHistory, lastThinkingContent, lastAnswerContent,
                   isThinking, chatWindow, req, call, loggedIn>>

\* ------------------------------------------------------------ the transport

\* The snapshots that may follow fullText in request r's stream: fullText and a
\* chunk of 1..MaxChunk more tokens.
Snapshots(r, fullText) ==
    {t \in StreamTexts(r) : /\ IsPrefix(fullText, t)
                            /\ Len(t) - Len(fullText) \in 1..MaxChunk}

\* The value streamOpenAIRequest / streamGeminiRequest resolves to: the
\* complete text, which is the last snapshot.
streamResult(fullText) == fullText

\* The replies a non-streaming request may resolve to.
Replies(r) == StreamTexts(r)

\* ------------------------------------------------ ChatController, ModelHandler

\* handleOpenAIStreaming / handleGeminiStreaming up to the await of the stream:
\* the window after createEmptyAIMessage and the thinking indicator.
streamingStartWindow(window, s) ==
    LET w == addMessage(window, "ai", <<>>)
    IN  IF s.enableCoT THEN updateMessageContent(w, Len(w), Placeholder) ELSE w

\* ChatController.sendMessage, up to the first await of the handler it calls.
sendMessage(r) ==
    /\ req[r].pc = "idle"
    /\ \A q \in Requests : q < r => req[q].pc # "idle"
    /\ \E message \in {<<>>, UserInput(r)}, selectedModel \in {"gpt", "gemini"} :
        IF message = <<>>
        THEN UNCHANGED vars
        ELSE LET s == settings
                 enhancedMessage == IF s.enableCoT THEN enhanceWithCoT(message) ELSE message
                 history == historyAdd(chatHistory, "user", message)
                 window == addMessage(chatWindow, "user", message)
             IN  /\ lastThinkingContent' = <<>>
                 /\ lastAnswerContent' = <<>>
                 /\ isThinking' = (s.streaming /\ s.enableCoT)
                 /\ chatHistory' = history
                 /\ chatWindow' = IF s.streaming
                                  THEN streamingStartWindow(window, s)
                                  ELSE window
                 /\ req' = [req EXCEPT ![r] =
                        [@ EXCEPT !.pc = IF s.streaming THEN "stream" ELSE "send",
                                  !.settings = s,
                                  !.sentHistory = history,
                                  !.sentMessage =
                                      IF selectedModel = "gemini" /\ ~s.streaming
                                      THEN enhancedMessage ELSE <<>>,
                                  !.aiMsgElement =
                                      IF s.streaming THEN Len(window) + 1 ELSE 0]]
                 /\ UNCHANGED <<settings, call, loggedIn>>

\* The chunk callback of handleOpenAIStreaming / handleGeminiStreaming.
StreamChunk(r) ==
    /\ req[r].pc = "stream"
    /\ \E fullText \in Snapshots(r, req[r].streamedResponse) :
        LET s == req[r].settings
            processed == processPartialCoTResponse(fullText)
        IN  IF s.enableCoT
            THEN /\ isThinking' = IF isThinking /\ includes(fullText, AN)
                                  THEN FALSE ELSE isThinking
                 /\ chatWindow' = updateMessageContent(chatWindow, req[r].aiMsgElement,
                                      formatResponseForDisplay(processed, s))
                 /\ req' = [req EXCEPT ![r] =
                        [@ EXCEPT !.streamedResponse = fullText,
                                  !.classified = "partial",
                                  !.processed = processed]]
            ELSE /\ chatWindow' = updateMessageContent(chatWindow, req[r].aiMsgElement,
                                      fullText)
                 /\ req' = [req EXCEPT ![r].streamedResponse = fullText]
                 /\ UNCHANGED isThinking
    /\ UNCHANGED <<settings, chatHistory, lastThinkingContent, lastAnswerContent,
                   call, loggedIn>>

\* handleOpenAIStreaming / handleGeminiStreaming from the stream's resolution
\* to the await of getTokenUsage.
StreamResolve(r) ==
    /\ req[r].pc = "stream"
    /\ LET fullReply == streamResult(req[r].streamedResponse)
           s == req[r].settings
           p == processCoTResponse(fullReply, parserState)
       IN  /\ IF s.enableCoT
              THEN /\ lastThinkingContent' = p.st.lastThinkingContent
                   /\ lastAnswerContent' = p.st.lastAnswerContent
                   /\ chatWindow' = updateMessageContent(chatWindow, req[r].aiMsgElement,
                                        formatResponseForDisplay(p.ret, s))
                   /\ req' = [req EXCEPT ![r] =
                          [@ EXCEPT !.pc = "usage", !.reply = fullReply,
                                    !.classified = "final", !.processed = p.ret]]
              ELSE /\ req' = [req EXCEPT ![r] =
                          [@ EXCEPT !.pc = "usage", !.reply = fullReply]]
                   /\ UNCHANGED <<lastThinkingContent, lastAnswerContent, chatWindow>>
           /\ chatHistory' = historyAdd(chatHistory, "assistant", fullReply)
    /\ UNCHANGED <<settings, isThinking, call, loggedIn>>

\* Mutant: the handler returns with no finally block.
UsageResolveNoFinally(r) ==
    /\ req[r].pc = "usage"
    /\ req' = [req EXCEPT ![r] = Finished(@)]
    /\ UNCHANGED <<settings, chatHistory, lastThinkingContent, lastAnswerContent,
                   isThinking, chatWindow, call, loggedIn>>

\* getTokenUsage resolves: the handler returns through its finally block.
UsageResolve(r) ==
    /\ req[r].pc = "usage"
    /\ isThinking' = FALSE
    /\ req' = [req EXCEPT ![r] = Finished(@)]
    /\ UNCHANGED <<settings, chatHistory, lastThinkingContent, lastAnswerContent,
                   chatWindow, call, loggedIn>>

\* The catch and finally blocks of a streaming handler, then sendMessage's catch.
streamingFailure(r) ==
    /\ isThinking' = FALSE
    /\ chatWindow' = addMessage(
           updateMessageContent(chatWindow, req[r].aiMsgElement, ErrorText),
           "ai", ErrorText)
    /\ req' = [req EXCEPT ![r] = FailedRequest]
    /\ UNCHANGED <<settings, chatHistory, lastThinkingContent, lastAnswerContent,
                   call, loggedIn>>

\* The stream rejects.
StreamReject(r) ==
    /\ req[r].pc = "stream"
    /\ streamingFailure(r)

\* getTokenUsage rejects.
UsageReject(r) ==
    /\ req[r].pc = "usage"
    /\ streamingFailure(r)

\* handleOpenAINonStreaming / handleGeminiNonStreaming after the request resolves.
SendResolve(r) ==
    /\ req[r].pc = "send"
    /\ \E reply \in Replies(r) :
        LET s == req[r].settings
            p == processCoTResponse(reply, parserState)
        IN  /\ IF s.enableCoT
               THEN /\ lastThinkingContent' = p.st.lastThinkingContent
                    /\ lastAnswerContent' = p.st.lastAnswerContent
                    /\ chatWindow' = addMessage(chatWindow, "ai",
                                         formatResponseForDisplay(p.ret, s))
                    /\ req' = [req EXCEPT ![r] =
                           [Finished(@) EXCEPT !.reply = reply,
                                     !.classified = "final", !.processed = p.ret]]
               ELSE /\ chatWindow' = addMessage(chatWindow, "ai", reply)
                    /\ req' = [req EXCEPT ![r] =
                           [Finished(@) EXCEPT !.reply = reply]]
                    /\ UNCHANGED <<lastThinkingContent, lastAnswerContent>>
            /\ chatHistory' = historyAdd(chatHistory, "assistant", reply)
    /\ UNCHANGED <<settings, isThinking, call, loggedIn>>

\* The non-streaming request rejects (or its result carries an error):
\* sendMessage's catch.
SendReject(r) ==
    /\ req[r].pc = "send"
    /\ chatWindow' = addMessage(chatWindow, "ai", ErrorText)
    /\ req' = [req EXCEPT ![r] = FailedRequest]
    /\ UNCHANGED <<settings, chatHistory, lastThinkingContent, lastAnswerContent,
                   isThinking, call, loggedIn>>

\* The timer set by a cancelled prompt fires: promptForPassword().
promptForPassword ==
    /\ ~loggedIn
    /\ loggedIn' \in loginOutcomes
    /\ UNCHANGED <<settings, chatHistory, lastThinkingContent, lastAnswerContent,
                   isThinking, chatWindow, req, call>>

Next ==
    \/ \E r \in Requests : sendMessage(r)
    \/ \E r \in Requests : StreamChunk(r)
    \/ \E r \in Requests : StreamResolve(r)
    \/ \E r \in Requests : UsageResolve(r)
    \/ \E r \in Requests : StreamReject(r)
    \/ \E r \in Requests : UsageReject(r)
    \/ \E r \in Requests : SendResolve(r)
    \/ \E r \in Requests : SendReject(r)
    \/ \E newSettings \in SettingsValues : updateSettings(newSettings)
    \/ promptForPassword

Spec == Init /\ [][Next]_vars

\* ------------------------------------------------ the parser called directly

\* Values an earlier processCoTResponse call may have left in the
\* carried-forward fields.
CarriedTexts == {<<>>, <<"b">>}

\* One call of the parser on a text of at most MaxLen tokens, from any
\* carried-forward state.
ParserInit ==
    /\ settings = InitialSettings
    /\ chatHistory = <<>>
    /\ lastThinkingContent \in CarriedTexts
    /\ lastAnswerContent \in CarriedTexts
    /\ isThinking = FALSE
    /\ chatWindow = <<>>
    /\ loggedIn = TRUE
    /\ req = [r \in Requests |-> IdleRequest]
    /\ \E t \in Texts : call = [NoCall EXCEPT !.text = t]

CallProcessCoTResponse ==
    /\ call.op = "none"
    /\ LET p == processCoTResponse(call.text, parserState)
       IN  /\ call' = [call EXCEPT !.op = "processCoTResponse",
                                   !.pre = parserState, !.ret = p.ret]
           /\ lastThinkingContent' = p.st.lastThinkingContent
           /\ lastAnswerContent' = p.st.lastAnswerContent
    /\ UNCHANGED appVars

\* Mutant: processPartialCoTResponse stores the segments it returns, as
\* processCoTResponse does.
CallProcessPartialStoring ==
    /\ call.op = "none"
    /\ LET processed == processPartialCoTResponse(call.text)
       IN  /\ call' = [call EXCEPT !.op = "processPartialCoTResponse",
                                   !.pre = parserState, !.ret = processed]
           /\ lastThinkingContent' = processed.thinking
           /\ lastAnswerContent' = processed.answer
    /\ UNCHANGED appVars

CallProcessPartialCoTResponse ==
    /\ call.op = "none"
    /\ call' = [call EXCEPT !.op = "processPartialCoTResponse",
                            !.pre = parserState,
                            !.ret = processPartialCoTResponse(call.text)]
    /\ UNCHANGED <<lastThinkingContent, lastAnswerContent>>
    /\ UNCHANGED appVars

\* processCoTResponse is called a second time on the same text, from the state
\* the first call left.
CallProcessCoTResponseAgain ==
    /\ call.op = "processCoTResponse"
    /\ ~call.again
    /\ ~call.formatted
    /\ LET p == processCoTResponse(call.text, parserState)
       IN  /\ call' = [call EXCEPT !.again = TRUE, !.post = parserState,
                                   !.ret2 = p.ret]
           /\ lastThinkingContent' = p.st.lastThinkingContent
           /\ lastAnswerContent' = p.st.lastAnswerContent
    /\ UNCHANGED appVars

\* formatResponseForDisplay is called on the returned object with any settings
\* object.
CallFormatResponseForDisplay ==
    /\ call.op # "none"
    /\ ~call.again
    /\ ~call.formatted
    /\ \E s \in SettingsValues :
        call' = [call EXCEPT !.formatted = TRUE, !.config = s,
                            !.display = formatResponseForDisplay(call.ret, s)]
    /\ UNCHANGED <<lastThinkingContent, lastAnswerContent>>
    /\ UNCHANGED appVars

ParserNext ==
    \/ CallProcessCoTResponse
    \/ CallProcessPartialCoTResponse
    \/ CallProcessCoTResponseAgain
    \/ CallFormatResponseForDisplay

ParserSpec == ParserInit /\ [][ParserNext]_vars

\* ------------------------------------------- one stream fed to the parser

\* resetState(), then no snapshot yet.
StreamInit ==
    /\ settings = InitialSettings
    /\ chatHistory = <<>>
    /\ lastThinkingContent = <<>>
    /\ lastAnswerContent = <<>>
    /\ isThinking = FALSE
    /\ chatWindow = <<>>
    /\ loggedIn = TRUE
    /\ req = [r \in Requests |-> IdleRequest]
    /\ call = NoCall

\* The next snapshot, which extends the last one by a chunk of 1..MaxChunk
\* tokens, is fed to processPartialCoTResponse.
FeedSnapshot ==
    /\ call.op \in {"none", "processPartialCoTResponse"}
    /\ \E chunk \in TextsUpTo(Alphabet, MaxChunk) \ {<<>>} :
        LET fullText == call.text \o chunk
        IN  /\ Len(fullText) <= MaxLen
            /\ call' = [call EXCEPT !.op = "processPartialCoTResponse",
                                    !.text = fullText,
                                    !.pre = parserState,
                                    !.ret = processPartialCoTResponse(fullText),
                                    !.prevText = call.text,
                                    !.prevRet = call.ret]
    /\ UNCHANGED <<lastThinkingContent, lastAnswerContent>>
    /\ UNCHANGED appVars

StreamNext == FeedSnapshot

StreamSpec == StreamInit /\ [][StreamNext]_vars

\* ------------------------------------- the formatter called on any object

\* The longest reasoning or answer segment of an object handed to the
\* formatter.
MaxSeg == 1

SegTexts == TextsUpTo(Chars, MaxSeg)

\* The objects handed to formatResponseForDisplay: the three fields every
\* returned object has, with or without the partial flag and the stage.
Classifications ==
    UNION {
          [thinking : SegTexts, answer : SegTexts, hasStructuredResponse : BOOLEAN],
          [thinking : SegTexts, answer : SegTexts, hasStructuredResponse : BOOLEAN,
           partial : BOOLEAN],
          [thinking : SegTexts, answer : SegTexts, hasStructuredResponse : BOOLEAN,
           stage : {"thinking", "answer"}],
          [thinking : SegTexts, answer : SegTexts, hasStructuredResponse : BOOLEAN,
           partial : BOOLEAN, stage : {"thinking", "answer"}] }

FormatInit ==
    /\ settings = InitialSettings
    /\ chatHistory = <<>>
    /\ lastThinkingContent \in CarriedTexts
    /\ lastAnswerContent \in CarriedTexts
    /\ isThinking = FALSE
    /\ chatWindow = <<>>
    /\ loggedIn = TRUE
    /\ req = [r \in Requests |-> IdleRequest]
    /\ \E c \in Classifications : call = [NoCall EXCEPT !.op = "given", !.ret = c]

FormatNext == CallFormatResponseForDisplay

FormatSpec == FormatInit /\ [][FormatNext]_vars

\* --------------------------------------------- the classification's fields

\* The classification a returned object stands for: isStructured, isPartial
\* and the stage (COMPLETE is structured and not partial, REASONING is the
\* object's stage 'thinking', NONE is everything else).
isStructured(c) == c.hasStructuredResponse
isPartial(c) == partialOf(c)
stageOf(c) ==
    IF stageIsThinking(c) THEN "REASONING"
    ELSE IF c.hasStructuredResponse /\ ~partialOf(c) THEN "COMPLETE"
    ELSE "NONE"
stageRank(c) == CASE stageOf(c) = "NONE" -> 0
                  [] stageOf(c) = "REASONING" -> 1
                  [] stageOf(c) = "COMPLETE" -> 2

calledCoT == call.op = "processCoTResponse"
calledPartial == call.op = "processPartialCoTResponse"
hasBoth(t) == includes(t, TH) /\ includes(t, AN)

\* ------------------------------------------------------------------ claims

firstThinking(t) == indexOf(t, TH, 1)
firstAnswer(t) == indexOf(t, AN, 1)
\* The first "Answer:" after the first "Thinking:", 0 when there is none.
answerAfterThinking(t) == indexOf(t, AN, firstThinking(t) + 1)
afterFirst(t, m) == SubSeq(t, indexOf(t, m, 1) + 1, Len(t))
ret == call.ret

\* C1: the classification of a request's final reply depends only on that
\* request's own text: it is what processCoTResponse returns for the reply from
\* the fresh state the request's resetState left, whatever other requests were
\* in flight.
C1_NoLeakBetweenRequests ==
    \A r \in Requests :
        req[r].classified = "final" =>
            req[r].processed = processCoTResponse(req[r].reply, FreshParserState).ret

\* C2 as stated: for a text with both markers processCoTResponse returns the
\* trimmed text between the first "Thinking:" and the first "Answer:" after it
\* as reasoning, the trimmed text after the first "Answer:" as answer, and
\* isStructured, not isPartial, stage COMPLETE.
C2_Original ==
    (calledCoT /\ hasBoth(call.text)) =>
        LET t == call.text
            i == firstThinking(t)
            j == answerAfterThinking(t)
        IN  /\ j # 0
            /\ ret.thinking = trim(SubSeq(t, i + 1, j - 1))
            /\ ret.answer = trim(afterFirst(t, AN))
            /\ isStructured(ret) /\ ~isPartial(ret) /\ stageOf(ret) = "COMPLETE"

\* C2 amended: as C2, with the reasoning running to the end of the text when no
\* "Answer:" follows the first "Thinking:" (the only "Answer:" precedes it).
C2_BothMarkers ==
    (calledCoT /\ hasBoth(call.text)) =>
        LET t == call.text
            i == firstThinking(t)
            j == answerAfterThinking(t)
            e == IF j = 0 THEN Len(t) + 1 ELSE j
        IN  /\ ret.thinking = trim(SubSeq(t, i + 1, e - 1))
            /\ ret.answer = trim(afterFirst(t, AN))
            /\ isStructured(ret) /\ ~isPartial(ret) /\ stageOf(ret) = "COMPLETE"

C2_Witness ==
    /\ calledCoT
    /\ call.text = <<AN, "a", TH, "b">>
    /\ ret.thinking = <<"b">>
    /\ ret.answer = <<"a", TH, "b">>

\* C3: for a text that starts with "Thinking:" and holds no "Answer:",
\* processCoTResponse returns the trimmed remainder as reasoning, isStructured,
\* isPartial, stage REASONING and the carried-forward lastAnswerContent as
\* answer (empty from a fresh state), and stores the reasoning in
\* lastThinkingContent.
C3_ThinkingPrefix ==
    (calledCoT /\ startsWith(call.text, TH) /\ ~includes(call.text, AN)) =>
        /\ ret.thinking = trim(Tail(call.text))
        /\ ret.answer = call.pre.lastAnswerContent
        /\ (call.pre = FreshParserState => ret.answer = <<>>)
        /\ isStructured(ret) /\ isPartial(ret) /\ stageOf(ret) = "REASONING"
        /\ lastThinkingContent = ret.thinking

C3_Witness ==
    /\ calledCoT
    /\ call.text = <<TH, WS, "a", WS>>
    /\ call.pre.lastAnswerContent = <<"b">>
    /\ ret.thinking = <<"a">>
    /\ ret.answer = <<"b">>
    /\ lastThinkingContent = <<"a">>

\* C4 as stated: a text that holds "Thinking:" and is handled by neither the
\* both-markers case nor the "Thinking:"-prefix case is classified with the
\* trimmed text after the first "Thinking:" as reasoning, an empty answer, not
\* isStructured and isPartial.
C4_MalformedFallback ==
    (/\ calledCoT
     /\ includes(call.text, TH)
     /\ ~hasBoth(call.text)
     /\ ~(startsWith(call.text, TH) /\ ~includes(call.text, AN))) =>
        /\ ret.thinking = trim(afterFirst(call.text, TH))
        /\ ret.answer = <<>>
        /\ ~isStructured(ret)
        /\ isPartial(ret)

\* C5: for a text with neither marker processCoTResponse returns an empty
\* reasoning, the text itself (untrimmed) as answer, not isStructured, not
\* isPartial and stage NONE, from every parser state.
C5_NoMarkers ==
    (calledCoT /\ ~includes(call.text, TH) /\ ~includes(call.text, AN)) =>
        /\ ret.thinking = <<>>
        /\ ret.answer = call.text
        /\ ~isStructured(ret) /\ ~isPartial(ret) /\ stageOf(ret) = "NONE"

C5_Witness ==
    /\ calledCoT
    /\ call.text = <<WS, "a", WS>>
    /\ call.pre = ParserState(<<"b">>, <<"b">>)
    /\ ret.answer = <<WS, "a", WS>>

\* C6: for a snapshot with both markers processPartialCoTResponse returns the
\* reasoning and the answer processCoTResponse extracts from the same text, with
\* isStructured, not isPartial and stage COMPLETE.
C6_PartialBothAsComplete ==
    (calledPartial /\ hasBoth(call.text)) =>
        LET whole == processCoTResponse(call.text, call.pre).ret
        IN  /\ ret.thinking = whole.thinking
            /\ ret.answer = whole.answer
            /\ isStructured(ret) /\ ~isPartial(ret) /\ stageOf(ret) = "COMPLETE"

C6_Witness ==
    /\ calledPartial
    /\ call.text = <<TH, WS, AN, WS>>
    /\ ret.thinking = <<>>
    /\ ret.answer = <<>>
    /\ stageOf(ret) = "COMPLETE"

\* C7: for a snapshot without both markers processPartialCoTResponse returns,
\* with "Thinking:" (and no "Answer:"): the trimmed text after the first
\* "Thinking:" as reasoning, an empty answer, isStructured, isPartial, stage
\* REASONING; without "Thinking:": the snapshot itself as answer, an empty
\* reasoning, not isStructured, stage NONE.
C7_PartialOneMarker ==
    (calledPartial /\ ~hasBoth(call.text)) =>
        IF includes(call.text, TH)
        THEN /\ ret.thinking = trim(afterFirst(call.text, TH))
             /\ ret.answer = <<>>
             /\ isStructured(ret) /\ isPartial(ret) /\ stageOf(ret) = "REASONING"
        ELSE /\ ret.answer = call.text
             /\ ret.thinking = <<>>
             /\ ~isStructured(ret) /\ stageOf(ret) = "NONE"

C7_Witness ==
    /\ calledPartial
    /\ call.text = <<"a", TH, WS, "b">>
    /\ ret.thinking = <<"b">>
    /\ stageOf(ret) = "REASONING"

\* C8 as stated: in every classification of either parser function, stage
\* COMPLETE implies a non-empty answer.
C8_Original ==
    ((calledCoT \/ calledPartial) /\ stageOf(ret) = "COMPLETE") => ret.answer # <<>>

\* C8 amended: stage COMPLETE implies that the text holds both markers; the
\* reasoning may be empty and so may the answer: the answer is empty exactly
\* when nothing but whitespace follows the first "Answer:".
C8_CompleteHasBothMarkers ==
    ((calledCoT \/ calledPartial) /\ stageOf(ret) = "COMPLETE") =>
        /\ hasBoth(call.text)
        /\ ret.answer = <<>> <=>
               \A i \in (firstAnswer(call.text) + 1)..Len(call.text) :
                   isSpace(call.text[i])

C8_Witness ==
    /\ calledCoT
    /\ call.text = <<TH, "a", AN>>
    /\ stageOf(ret) = "COMPLETE"
    /\ ret.thinking = <<"a">>
    /\ ret.answer = <<>>

stageNeverRegresses ==
    /\ stageRank(call.prevRet) <= stageRank(ret)
    /\ (stageOf(call.prevRet) = "REASONING" /\ includes(call.text, AN)) =>
           /\ stageOf(ret) = "COMPLETE"
           /\ ret.answer = trim(afterFirst(call.text, AN))

\* The reasoning and the answer of the last snapshot are kept: each is a prefix
\* of what the next snapshot yields.
shownContentKept ==
    /\ IsPrefix(call.prevRet.thinking, ret.thinking)
    /\ IsPrefix(call.prevRet.answer, ret.answer)

reasoningFrozen ==
    /\ ret.thinking = call.prevRet.thinking
    /\ IsPrefix(call.prevRet.answer, ret.answer)

\* C11 as stated: once a snapshot that holds both markers has been classified
\* by processPartialCoTResponse, every later snapshot that extends it gives the
\* same reasoning segment, and only the answer grows.
C11_Original ==
    (calledPartial /\ hasBoth(call.prevText)) => reasoningFrozen

\* C11 amended: once a snapshot in which an "Answer:" follows the first
\* "Thinking:" has been classified by processPartialCoTResponse, every later
\* snapshot that extends it gives the same reasoning segment, and only the
\* answer grows; while the only "Answer:" stands before the first "Thinking:",
\* the reasoning runs to the end of the text and grows with it.
C11_ReasoningFrozen ==
    (calledPartial /\ includes(call.prevText, TH)
                   /\ answerAfterThinking(call.prevText) # 0) => reasoningFrozen

C11_Witness ==
    /\ calledPartial
    /\ call.prevText = <<TH, "a", AN>>
    /\ call.text = <<TH, "a", AN, "b">>
    /\ call.prevRet.thinking = <<"a">>
    /\ ret.thinking = <<"a">>
    /\ call.prevRet.answer = <<>>
    /\ ret.answer = <<"b">>

\* C12: formatResponseForDisplay called with enableCoT = false returns the
\* object's answer unchanged, whatever the object's other fields and whatever
\* showThinking is.
C12_CoTDisabledAnswerOnly ==
    (call.formatted /\ ~call.config.enableCoT) => call.display = ret.answer

C12_Witness ==
    /\ call.formatted
    /\ ~call.config.enableCoT
    /\ call.config.showThinking
    /\ isStructured(ret)
    /\ stageOf(ret) = "REASONING"
    /\ ret.thinking = <<"b">>
    /\ ret.answer = <<"a">>
    /\ call.display = <<"a">>

\* formatResponseForDisplay was called with showThinking = false on an object
\* whose answer is empty.
hiddenNoAnswer ==
    call.formatted /\ ~call.config.showThinking /\ ret.answer = <<>>

\* C13 as stated: formatResponseForDisplay called with showThinking = false on
\* an object whose answer is empty returns the placeholder, never the empty
\* string, whatever the object's other fields and whatever enableCoT is.
C13_Original ==
    hiddenNoAnswer => (call.display = Placeholder /\ call.display # <<>>)

\* C13 amended: formatResponseForDisplay called with showThinking = false on
\* an object whose answer is empty returns the placeholder when enableCoT is
\* true and the object is structured; when enableCoT is false or the object is
\* unstructured it returns the empty answer.
C13_PlaceholderWhenStructured ==
    hiddenNoAnswer =>
        IF call.config.enableCoT /\ isStructured(ret)
        THEN call.display = Placeholder
        ELSE call.display = <<>>

C13_Witness ==
    /\ hiddenNoAnswer
    /\ calledPartial
    /\ call.text = <<TH, WS, "a">>
    /\ call.config.enableCoT
    /\ stageOf(ret) = "REASONING"
    /\ call.display = Placeholder

\* The formatter's three outputs when the reasoning is shown.
labelledReasoning(c) == <<TH, WS>> \o c.thinking
fullForm(c) == <<TH, WS>> \o c.thinking \o <<NL, NL, AN, WS>> \o c.answer

\* formatResponseForDisplay was called with enableCoT = true and
\* showThinking = true on a structured classification; stage REASONING comes
\* with isPartial, as in every classification the parser returns.
shownStructured ==
    /\ call.formatted
    /\ call.config.enableCoT
    /\ call.config.showThinking
    /\ isStructured(ret)
    /\ stageOf(ret) = "REASONING" => isPartial(ret)

\* C14: with enableCoT = true and showThinking = true on a structured
\* classification, stage REASONING gives "Thinking: " + reasoning, partial with
\* another stage gives the reasoning alone, and stage COMPLETE gives
\* "Thinking: " + reasoning + "\n\n" + "Answer: " + answer.
C14_DecisionTable ==
    shownStructured =>
        /\ stageOf(ret) = "REASONING" => call.display = labelledReasoning(ret)
        /\ (isPartial(ret) /\ stageOf(ret) # "REASONING") => call.display = ret.thinking
        /\ stageOf(ret) = "COMPLETE" => call.display = fullForm(ret)

C14_Witness ==
    /\ shownStructured
    /\ stageOf(ret) = "REASONING"
    /\ ret.thinking = <<"a">>
    /\ ret.answer = <<"b">>
    /\ call.display = <<TH, WS, "a">>

\* A returned object has the three fields every branch writes, its segments
\* are texts.
isClassification(c) ==
    /\ {"thinking", "answer", "hasStructuredResponse"} \subseteq DOMAIN c
    /\ c.hasStructuredResponse \in BOOLEAN
    /\ DOMAIN c.thinking = 1..Len(c.thinking)
    /\ DOMAIN c.answer = 1..Len(c.answer)

\* C15: processCoTResponse, processPartialCoTResponse and
\* formatResponseForDisplay return a value for every text (an object with the
\* three fields, a string), and for the empty text the parser returns stage
\* NONE, unstructured, with empty reasoning and empty answer, from any
\* carried-forward state.
C15_Total ==
    /\ (calledCoT \/ calledPartial) => isClassification(ret)
    /\ call.formatted => DOMAIN call.display = 1..Len(call.display)
    /\ ((calledCoT \/ calledPartial) /\ call.text = <<>>) =>
           /\ stageOf(ret) = "NONE"
           /\ ~isStructured(ret)
           /\ ~isPartial(ret)
           /\ ret.thinking = <<>>
           /\ ret.answer = <<>>

C15_Witness ==
    /\ calledCoT
    /\ call.text = <<>>
    /\ call.pre = ParserState(<<"b">>, <<"b">>)
    /\ stageOf(ret) = "NONE"
    /\ ret.answer = <<>>
    /\ call.formatted
    /\ call.display = <<>>

\* C16: processCoTResponse called twice in a row on the same text, from any
\* carried-forward state, returns the same object both times, and the
\* carried-forward fields after the second call are those after the first.
C16_Idempotent ==
    call.again => (call.ret2 = ret /\ parserState = call.post)

C16_Witness ==
    /\ call.again
    /\ call.text = <<TH, "a">>
    /\ call.pre = ParserState(<<"b">>, <<"b">>)
    /\ call.post = ParserState(<<"a">>, <<"b">>)
    /\ parserState = call.post
    /\ call.ret2.thinking = <<"a">>
    /\ call.ret2.answer = <<"b">>

\* Request r's sendMessage call runs in this step (non-empty input).
sends(r) == req[r].pc = "idle" /\ req'[r].pc \in {"stream", "send"}

\* C17: every sendMessage call with non-empty input resets the parser state
\* before any of its text is classified, so the request starts from empty
\* carried-forward fields with isThinking set only by its own streaming
\* handler, and no such reset happens while another request's stream is in
\* flight.
C17_ResetOncePerRequest ==
    [][\A r \in Requests :
          sends(r) =>
              /\ lastThinkingContent' = <<>>
              /\ lastAnswerContent' = <<>>
              /\ isThinking' => req'[r].pc = "stream"
              /\ req'[r].classified = "none"
              /\ \A q \in Requests \ {r} : req[q].pc # "stream"]_vars

\* This step is a call of processPartialCoTResponse / of
\* formatResponseForDisplay.
partialCallStep == call.op = "none" /\ call'.op = "processPartialCoTResponse"
formatCallStep == ~call.formatted /\ call'.formatted

\* C18: a call of processPartialCoTResponse or of formatResponseForDisplay
\* leaves the stored settings and the parser state (lastThinkingContent,
\* lastAnswerContent, isThinking) as they were, and what is displayed for a
\* snapshot is the formatter applied to the snapshot's classification and the
\* settings passed.
C18_NoSideEffect ==
    [][(partialCallStep \/ formatCallStep) =>
          /\ settings' = settings
          /\ lastThinkingContent' = lastThinkingContent
          /\ lastAnswerContent' = lastAnswerContent
          /\ isThinking' = isThinking
          /\ (formatCallStep /\ call.op = "processPartialCoTResponse") =>
                 call'.display = formatResponseForDisplay(
                     processPartialCoTResponse(call.text), call'.config)]_vars

C18_Witness ==
    /\ calledPartial
    /\ call.formatted
    /\ call.text = <<TH, "a", AN, "a">>
    /\ call.pre = ParserState(<<"b">>, <<"b">>)
    /\ parserState = call.pre
    /\ settings = InitialSettings
    /\ call.config = [streaming |-> TRUE, enableCoT |-> TRUE, showThinking |-> FALSE]
    /\ call.display = <<"a">>

\* Request r's stream completes in this step; request r's handler returns or
\* fails after its completed stream in this step.
completes(r) == req[r].pc = "stream" /\ req'[r].pc = "usage"
leavesUsage(r) == req[r].pc = "usage" /\ req'[r].pc # "usage"

\* The final text is classified with processCoTResponse, from the parser state
\* as it is when the stream completes, and the request's message element shows
\* that classification formatted with the request's settings.
classifiedAndShown(r) ==
    LET p == processCoTResponse(req[r].streamedResponse, parserState)
    IN  /\ req'[r].classified = "final"
        /\ req'[r].processed = p.ret
        /\ chatWindow'[req[r].aiMsgElement].text =
               formatResponseForDisplay(p.ret, req[r].settings)

\* The full reply is appended to the history as one assistant entry.
persistedOnce(r) ==
    chatHistory' = Append(chatHistory,
                          [role |-> "assistant", content |-> req[r].streamedResponse])

\* C19 as stated: when a stream completes, the final full text is classified
\* once more with processCoTResponse, the display is updated from that
\* classification, and the reply is persisted as exactly one assistant entry
\* of the history for that request.
C19_Original ==
    [][\A r \in Requests :
          /\ completes(r) => (classifiedAndShown(r) /\ persistedOnce(r))
          /\ leavesUsage(r) => chatHistory' = chatHistory]_vars

\* C19 amended: when a stream completes and the request ran with enableCoT =
\* true, the final full text is classified once more with processCoTResponse
\* and the display is updated from that classification; with enableCoT = false
\* nothing is classified and the display stays as the last snapshot left it.
\* Either way the full reply is persisted as exactly one assistant entry of
\* the history for that request.
C19_FinalClassification ==
    [][\A r \in Requests :
          /\ completes(r) =>
                 /\ IF req[r].settings.enableCoT
                    THEN classifiedAndShown(r)
                    ELSE /\ req'[r].classified = "none"
                         /\ chatWindow' = chatWindow
                 /\ persistedOnce(r)
          /\ leavesUsage(r) => chatHistory' = chatHistory]_vars

C19_Witness ==
    \E r \in Requests :
        /\ req[r].pc = "usage"
        /\ req[r].settings.enableCoT
        /\ req[r].settings.showThinking
        /\ req[r].classified = "final"
        /\ req[r].reply = <<TH, ReqChar(r), AN, ReqChar(r)>>
        /\ stageOf(req[r].processed) = "COMPLETE"
        /\ chatHistory[Len(chatHistory)] =
               [role |-> "assistant", content |-> req[r].reply]
        /\ chatWindow[req[r].aiMsgElement].text = fullForm(req[r].processed)

\* C20: whenever sendMessage hands a request to the transport,
\* ApiService.init(password) has returned true before: no message is sent
\* while the password prompt is pending, cancelled or rejected.
C20_AuthenticatedBeforeSend ==
    [][\A r \in Requests : sends(r) => loggedIn]_vars

\* C21: processCoTResponse stores a segment in lastThinkingContent /
\* lastAnswerContent only when the segment is non-empty: a call that extracts an
\* empty reasoning or an empty answer leaves that field as it was, and a call
\* on unstructured text leaves both as they were.
C21_StoresOnlyNonEmpty ==
    calledCoT =>
        /\ ret.thinking = <<>> => lastThinkingContent = call.pre.lastThinkingContent
        /\ ret.answer = <<>> => lastAnswerContent = call.pre.lastAnswerContent
        /\ ~isStructured(ret) => parserState = call.pre

\* Request r is in flight; no request but r is in flight; no request but r has
\* started.
inFlight(r) == req[r].pc \in {"stream", "send", "usage"}
onlyInFlight(r) == \A q \in Requests \ {r} : ~inFlight(q)
onlyStarted(r) == \A q \in Requests \ {r} : req[q].pc = "idle"

\* The text streamed so far holds the marker.
streamed(r, m) == includes(req[r].streamedResponse, m)

\* Request r streams with enableCoT = true.
streamsCoT(r) == req[r].pc \in {"stream", "usage"} /\ req[r].settings.enableCoT

\* The flag while a request that never shared the parser is streaming, and
\* after it: true once "Thinking:" has arrived and no "Answer:" yet, false once
\* a snapshot holds "Answer:", false after the request returned or failed.
thinkingFlagOfLoneRequest ==
    \A r \in Requests :
        onlyStarted(r) =>
            /\ (streamsCoT(r) /\ streamed(r, TH) /\ ~streamed(r, AN)) => isThinking
            /\ (streamsCoT(r) /\ streamed(r, AN)) => ~isThinking
            /\ req[r].pc \in {"done", "failed"} => ~isThinking

\* The flag over one step of a request while no other request is in flight: set
\* when the streaming handler starts, cleared by the first snapshot that holds
\* "Answer:" and never set again, cleared when the handler returns or fails.
thinkingFlagStep ==
    \A r \in Requests :
        (onlyInFlight(r) /\ onlyInFlight(r)') =>
            /\ (sends(r) /\ settings.enableCoT /\ settings.streaming) => isThinking'
            /\ (streamsCoT(r) /\ inFlight(r)') =>
                   isThinking' = (isThinking /\ ~streamed(r, AN)')
            /\ (inFlight(r) /\ ~inFlight(r)') => ~isThinking'

\* C22: during a streaming request with CoT enabled and no other request in
\* flight, isThinking is true between the arrival of "Thinking:" and the
\* arrival of "Answer:", false from the first snapshot that holds "Answer:"
\* on, and false after the request has returned or failed.
C22_ThinkingFlag ==
    []thinkingFlagOfLoneRequest /\ [][thinkingFlagStep]_vars

C22_Witness ==
    \E r \in Requests :
        /\ onlyStarted(r)
        /\ req[r].pc = "stream"
        /\ req[r].settings.enableCoT
        /\ req[r].streamedResponse = <<TH, ReqChar(r), AN>>
        /\ ~isThinking

\* What the completion of a stream displays for the text, from the parser
\* state as it is: processCoTResponse, then formatResponseForDisplay with the
\* same settings.
finalDisplay == formatResponseForDisplay(
                    processCoTResponse(call.text, parserState).ret, call.config)

\* C23: with enableCoT = true, in a request that has the parser state to
\* itself, when the final reply is the last snapshot, what completion displays
\* (processCoTResponse, formatResponseForDisplay) is what was displayed for
\* that snapshot (processPartialCoTResponse, formatResponseForDisplay), for
\* every text and both values of showThinking.
C23_FinalAgreesWithStreaming ==
    (calledPartial /\ call.formatted /\ call.config.enableCoT
                   /\ parserState = FreshParserState) =>
        finalDisplay = call.display

\* The text between the first "Thinking:" and the first "Answer:" after it
\* (the end of the text when there is none), and the text around it.
reasoningText(t) ==
    LET i == firstThinking(t)
        j == answerAfterThinking(t)
    IN  SubSeq(t, i + 1, IF j = 0 THEN Len(t) ELSE j - 1)
aroundReasoning(t) ==
    LET i == firstThinking(t)
        j == answerAfterThinking(t)
    IN  SubSeq(t, 1, i) \o (IF j = 0 THEN <<>> ELSE SubSeq(t, j, Len(t)))

charsOf(t) == {t[k] : k \in 1..Len(t)} \cap Chars

\* The reasoning of the text is told apart from the rest: it has a character,
\* and shares none with the text around it.
reasoningDistinct(t) ==
    /\ includes(t, TH)
    /\ charsOf(reasoningText(t)) # {}
    /\ charsOf(reasoningText(t)) \cap charsOf(aroundReasoning(t)) = {}

\* C24: with enableCoT = true and showThinking = false, for every snapshot and
\* every final reply that holds "Thinking:", classified from the request's own
\* fresh state, the string displayed is the placeholder or the answer segment
\* and holds no character of the reasoning.
C24_HiddenReasoningStaysHidden ==
    (/\ calledCoT \/ calledPartial
     /\ call.pre = FreshParserState
     /\ call.formatted
     /\ call.config.enableCoT
     /\ ~call.config.showThinking
     /\ reasoningDistinct(call.text)) =>
        /\ call.display \in {Placeholder, ret.answer}
        /\ charsOf(call.display) \cap charsOf(reasoningText(call.text)) = {}

\* How many times the messages handed to the transport for request r hold the
\* CoT-enhanced form of the user's message: as the message argument, and as an
\* entry of the history argument.
enhancedSent(r) ==
    LET enhanced == enhanceWithCoT(UserInput(r))
    IN  (IF req[r].sentMessage = enhanced THEN 1 ELSE 0)
        + Cardinality({k \in DOMAIN req[r].sentHistory :
                          req[r].sentHistory[k].content = enhanced})

\* C25: when enableCoT is true, the messages handed to the transport for a
\* request hold the CoT-enhanced form of the user's message exactly once, on
\* the streaming and the non-streaming path of either provider.
C25_EnhancedSentOnce ==
    \A r \in Requests :
        (req[r].pc \in {"stream", "send"} /\ req[r].settings.enableCoT) =>
            enhancedSent(r) = 1

\* C26: after any sequence of sendMessage calls, completions and failures,
\* overlapping ones included, the roles of the chat history alternate user,
\* assistant, user, assistant, ..., and each assistant entry comes right after
\* the user entry of the request it answers.
C26_HistoryAlternates ==
    \A k \in DOMAIN chatHistory :
        /\ chatHistory[k].role = IF k % 2 = 1 THEN "user" ELSE "assistant"
        /\ chatHistory[k].role = "assistant" =>
               \E r \in Requests :
                   /\ chatHistory[k].content \in Replies(r)
                   /\ chatHistory[k - 1] = [role |-> "user", content |-> UserInput(r)]

\* The message elements of the window that show an error.
errorElements(window) == {k \in DOMAIN window : window[k].text = ErrorText}

\* Request r's transport call (the stream, the non-streaming request) fails in
\* this step.
transportFails(r) == req[r].pc \in {"stream", "send"} /\ req'[r].pc = "failed"

\* C27: a request whose transport call fails shows exactly one "Error: ..."
\* message element in the chat window, in streaming and in non-streaming mode,
\* and adds no assistant entry to the chat history.
C27_OneErrorElement ==
    [][\A r \in Requests :
          transportFails(r) =>
              /\ Cardinality(errorElements(chatWindow')) =
                     Cardinality(errorElements(chatWindow)) + 1
              /\ chatHistory' = chatHistory]_vars

\* A snapshot of request r's stream arrives in this step.
chunkStep(r) ==
    /\ req[r].pc = "stream"
    /\ req'[r].pc = "stream"
    /\ req'[r].streamedResponse # req[r].streamedResponse

\* What a chunk callback displays for the snapshot with the settings s.
snapshotDisplay(fullText, s) ==
    IF s.enableCoT
    THEN formatResponseForDisplay(processPartialCoTResponse(fullText), s)
    ELSE fullText

\* C28: a request runs with the settings as they were when its sendMessage
\* started: they fix the streaming or non-streaming path, and the chunk
\* callbacks and the final render use their enableCoT and showThinking,
\* whatever updateSettings stores while the request is in flight; a step that
\* changes the stored settings changes no request, and no request's step
\* changes the stored settings.
C28_SettingsSnapshot ==
    [][/\ \A r \in Requests :
             /\ sends(r) => req'[r].settings = settings
             /\ (inFlight(r) /\ inFlight(r)') => req'[r].settings = req[r].settings
             /\ inFlight(r)' =>
                    (req'[r].pc \in {"stream", "usage"}) = req'[r].settings.streaming
             /\ chunkStep(r) =>
                    chatWindow'[req[r].aiMsgElement].text =
                        snapshotDisplay(req'[r].streamedResponse, req[r].settings)
             /\ (completes(r) /\ req[r].settings.enableCoT) => classifiedAndShown(r)
       /\ settings' # settings => req' = req
       /\ req' # req => settings' = settings]_vars

C28_Witness ==
    \E r \in Requests :
        /\ req[r].pc = "stream"
        /\ req[r].settings = [streaming |-> TRUE, enableCoT |-> TRUE, showThinking |-> TRUE]
        /\ settings = [streaming |-> FALSE, enableCoT |-> FALSE, showThinking |-> FALSE]
        /\ req[r].streamedResponse = <<TH, ReqChar(r)>>
        /\ chatWindow[req[r].aiMsgElement].text = <<TH, WS, ReqChar(r)>>

====
